---- MODULE Spec2Model ----
(***************************************************************************)
(* Model of rpp/manager.py (Rich Presence Plus): the Manager that loads    *)
(* presence plugins from a folder and runs them on a thread pool.          *)
(*                                                                         *)
(* Threads of control:                                                     *)
(*   - the caller's thread, which runs load() and then start();            *)
(*   - one __presence_thread task per entry of self.presences;             *)
(*   - one __main_thread task (the global tick and its teardown);          *)
(*   - the __runtime_thread task, when start() submits it.                 *)
(* Tasks run on a ThreadPoolExecutor of MAX_PRESENCES workers: a submitted *)
(* task waits in the executor's FIFO queue until a worker is free.         *)
(*                                                                         *)
(* Hooks of a presence (on_load, on_update, update, on_close) and the      *)
(* runtime are external code: each call either returns or raises.          *)
(***************************************************************************)
EXTENDS Integers, Sequences, FiniteSets, TLC

\* Bounds of the model.
MaxFiles == 2          \* files the directory walk visits
MaxClasses == 2        \* Presence subclasses defined by one main.py
MaxRegistry == 2       \* entries of self.presences
MAX_PRESENCES == 2     \* Constants.MAX_PRESENCES, the pool's max_workers
MaxLoads == 2          \* calls of load() over one folder

VARIABLES
    phase,        \* "load": load() is walking the folder; "ready": load() returned
    nFiles,       \* files visited by the walk so far
    presences,    \* self.presences: sequence of instances [enabled, web]
    web_enabled,  \* self.web_enabled
    tree,         \* the folder's files in walk order, where fixed in advance
    nErrors,      \* errors load_presence logged during the walk in progress
    nLoads,       \* calls of load() that have returned
    runtime,      \* the Runtime Handle: "connected", "disconnected", "unreadable"
    stop_event,   \* self.stop_event.is_set()
    startPc,      \* position of the caller's thread in start()
    startIdx,     \* index of the presence start() is at (0 when not iterating)
    startExc,     \* exception start() propagates once its finally block ends
    taskPc,       \* position of each presence's __presence_thread
    warned,       \* presences for which __presence_thread logged its warning
    mainPc,       \* position of __main_thread
    mainIdx,      \* index of the presence __main_thread is at
    queue,        \* the executor's work queue (FIFO)
    rtSpawned,    \* number of __runtime_thread tasks submitted
    rtFailed,     \* number of __runtime_thread tasks that ended by an exception
    loads,        \* per presence: number of on_load() invocations
    closes        \* per presence: number of on_close() invocations

vars == <<phase, nFiles, presences, web_enabled, tree, nErrors, nLoads,
          runtime, stop_event,
          startPc, startIdx, startExc, taskPc, warned, mainPc, mainIdx,
          queue, rtSpawned, rtFailed, loads, closes>>

loadVars == <<phase, nFiles, presences, web_enabled, tree, nErrors, nLoads>>
startVars == <<startPc, startIdx, startExc>>
mainVars == <<mainPc, mainIdx>>
rtVars == <<rtSpawned, rtFailed>>

----------------------------------------------------------------------------
\* Data

\* A Presence subclass found in a module: the attributes its instance has.
Classes == [enabled : BOOLEAN, web : BOOLEAN]

ClassSeqs == UNION {[1..n -> Classes] : n \in 0..MaxClasses}

\* A file the walk visits.  name: the file's name.  classes: the Presence
\* subclasses the module defines, in dir() order.  failAt: the first step of
\* load_presence that raises: 0 = resolving or executing the module,
\* k in 1..Len(classes) = instantiating the k-th class, Len(classes)+1 = none.
FileNames == {"main.py", "__init__.py", "helper.py"}

\* load() never opens a file that is not an entry point: those carry no content.
Files == {f \in [name : FileNames, classes : ClassSeqs, failAt : 0..(MaxClasses + 1)] :
            /\ f.failAt <= Len(f.classes) + 1
            /\ f.name /= "main.py" => f.classes = <<>> /\ f.failAt = 1}

\* The folders a walk can find: sequences of files in walk order.
Trees == UNION {[1..n -> Files] : n \in 0..MaxFiles}

\* file.startswith("__")
StartsWithDunder(name) == name = "__init__.py"

\* load(): the files the walk hands to load_presence.
IsEntryPoint(name) == ~StartsWithDunder(name) /\ name = "main.py"

N == Len(presences)
Idx == 1..N

\* Task identifiers in the executor's queue.
PTask(i) == <<"presence", i>>
MainTask == <<"main", 0>>
RtTask == <<"runtime", 0>>

\* Workers of the pool that are executing a task.
Busy == Cardinality({i \in Idx : taskPc[i] \in {"sleep", "on_update"}})
        + (IF mainPc \in {"sleep", "update", "on_close"} THEN 1 ELSE 0)

\* self.runtime.connected, where the handle can be read.
Connected == runtime = "connected"

----------------------------------------------------------------------------
\* The state __init__ leaves, with load() called.
Constructed ==
    /\ phase = "load"
    /\ nFiles = 0
    /\ presences = <<>>
    /\ web_enabled = FALSE
    /\ nErrors = 0
    /\ nLoads = 0
    /\ runtime \in {"connected", "disconnected", "unreadable"}
    /\ stop_event = FALSE
    /\ startPc = "idle"
    /\ startIdx = 0
    /\ startExc = "none"
    /\ taskPc = <<>>
    /\ warned = <<>>
    /\ mainPc = "none"
    /\ mainIdx = 0
    /\ queue = <<>>
    /\ rtSpawned = 0
    /\ rtFailed = 0
    /\ loads = <<>>
    /\ closes = <<>>

\* The folder's content is not fixed in advance: the walk finds any file.
Init == Constructed /\ tree = <<>>

\* The folder's content is fixed: every walk finds the same files.
InitTree == Constructed /\ tree \in Trees

----------------------------------------------------------------------------
\* load() and load_presence()

\* Some step of load_presence raises for this file: lines 98-100 log an error.
Raises(f) == f.failAt <= Len(f.classes)

\* The instances load_presence creates before it raises or finishes: line 91
\* runs for the classes that precede the first failing step.
Instantiated(f) ==
    IF f.failAt = 0 THEN <<>>
    ELSE SubSeq(f.classes, 1, IF f.failAt > Len(f.classes) THEN Len(f.classes)
                                                          ELSE f.failAt - 1)

IsEnabled(c) == c.enabled

\* (variant) every created instance is appended, whatever its enabled flag.
AppendedUnfiltered(f) == Instantiated(f)

\* Lines 96-97: the instances appended to self.presences.
Appended(f) == SelectSeq(Instantiated(f), IsEnabled)

\* Lines 94-95: whether some created instance sets self.web_enabled.
WebSeen(f) == \E j \in 1..Len(Instantiated(f)) : Instantiated(f)[j].web

Fresh(n, v) == [j \in 1..n |-> v]

\* One iteration of the walk in load(): a file that is not an entry point is
\* skipped, an entry point goes through load_presence, whose except clause
\* keeps what was appended before the failure.
LoadFile(f) ==
    /\ phase = "load"
    /\ nFiles < MaxFiles
    /\ nFiles' = nFiles + 1
    /\ UNCHANGED <<phase, tree, nLoads>>
    /\ IF IsEntryPoint(f.name)
       THEN /\ Len(presences) + Len(Appended(f)) <= MaxRegistry
            /\ nErrors' = nErrors + (IF Raises(f) THEN 1 ELSE 0)
            /\ presences' = presences \o Appended(f)
            /\ web_enabled' = (web_enabled \/ WebSeen(f))
            /\ taskPc' = taskPc \o Fresh(Len(Appended(f)), "none")
            /\ warned' = warned \o Fresh(Len(Appended(f)), FALSE)
            /\ loads' = loads \o Fresh(Len(Appended(f)), 0)
            /\ closes' = closes \o Fresh(Len(Appended(f)), 0)
       ELSE UNCHANGED <<presences, web_enabled, nErrors, taskPc, warned, loads, closes>>
    /\ UNCHANGED <<runtime, stop_event, startVars, mainVars, queue, rtVars>>

\* The walk over a folder whose content is not fixed in advance.
LoadAny == \E f \in Files : LoadFile(f)

\* The walk over a fixed folder: the next file in walk order.
LoadNext == nFiles < Len(tree) /\ LoadFile(tree[nFiles + 1])

\* The walk ends and load() returns.
LoadReturn ==
    /\ phase = "load"
    /\ phase' = "ready"
    /\ nFiles' = 0
    /\ nErrors' = 0
    /\ nLoads' = nLoads + 1
    /\ UNCHANGED <<presences, web_enabled, tree, runtime, stop_event, startVars,
                   taskPc, warned, mainVars, queue, rtVars, loads, closes>>

\* load() returns from the walk over a fixed folder: every file was visited.
LoadReturnTree == nFiles = Len(tree) /\ LoadReturn

\* The caller calls load() again, before start().
LoadAgain ==
    /\ phase = "ready"
    /\ startPc = "idle"
    /\ nLoads < MaxLoads
    /\ phase' = "load"
    /\ UNCHANGED <<nFiles, presences, web_enabled, tree, nErrors, nLoads, runtime,
                   stop_event, startVars, taskPc, warned, mainVars, queue,
                   rtVars, loads, closes>>

----------------------------------------------------------------------------
\* The environment

\* The external runtime connects or disconnects.
RuntimeChange ==
    /\ runtime \in {"connected", "disconnected"}
    /\ runtime' = IF runtime = "connected" THEN "disconnected" ELSE "connected"
    /\ UNCHANGED <<loadVars, stop_event, startVars, taskPc, warned, mainVars,
                   queue, rtVars, loads, closes>>

\* Some thread other than start() sets the stop signal.
StopSignal ==
    /\ phase = "ready"
    /\ ~stop_event
    /\ startPc \notin {"returned", "raised"}
    /\ stop_event' = TRUE
    /\ UNCHANGED <<loadVars, runtime, startVars, taskPc, warned, mainVars,
                   queue, rtVars, loads, closes>>

----------------------------------------------------------------------------
\* The thread pool

\* executor.submit(task): the task joins the work queue.
Submit(q, task) == Append(q, task)

\* A worker is free to take the task at the head of the queue.
CanPick(task) == queue /= <<>> /\ Head(queue) = task /\ Busy < MAX_PRESENCES

\* (variant) shutdown(wait=False): returns without waiting for the tasks.
DrainNoWait == TRUE

\* executor.shutdown(wait=True) returns: nothing is queued, nothing runs.
DrainComplete == queue = <<>> /\ Busy = 0

----------------------------------------------------------------------------
\* start() and run_presences(), on the caller's thread

\* (variant) no test of the list: run_presences loops over nothing and
\* submits __main_thread.
EntryPcNoCheck == IF presences = <<>> THEN "submit_main" ELSE "launch"

\* Lines 157-159: where start() goes on entry.
EntryPc == IF presences = <<>> THEN "returned" ELSE "launch"

\* Lines 157-162: start() returns at once on an empty list, otherwise it
\* enters the try block and run_presences.
StartCall ==
    /\ phase = "ready"
    /\ startPc = "idle"
    /\ startPc' = EntryPc
    /\ startIdx' = IF presences = <<>> THEN 0 ELSE 1
    /\ UNCHANGED <<loadVars, runtime, stop_event, startExc, taskPc, warned,
                   mainVars, queue, rtVars, loads, closes>>

\* Lines 147-149 for one presence: on_load() returns and its task is submitted.
Launch ==
    /\ startPc = "launch"
    /\ loads' = [loads EXCEPT ![startIdx] = @ + 1]
    /\ queue' = Submit(queue, PTask(startIdx))
    /\ taskPc' = [taskPc EXCEPT ![startIdx] = "queued"]
    /\ IF startIdx < N
       THEN startPc' = "launch" /\ startIdx' = startIdx + 1
       ELSE startPc' = "submit_main" /\ startIdx' = 0
    /\ UNCHANGED <<loadVars, runtime, stop_event, startExc, warned, mainVars,
                   rtVars, closes>>

\* Line 148 raises: the exception leaves the try block (no except clause
\* matches it) and start() enters its finally block.
LaunchRaise ==
    /\ startPc = "launch"
    /\ loads' = [loads EXCEPT ![startIdx] = @ + 1]
    /\ startPc' = "drain"
    /\ startIdx' = 0
    /\ startExc' = "on_load"
    /\ UNCHANGED <<loadVars, runtime, stop_event, taskPc, warned, mainVars,
                   queue, rtVars, closes>>

\* Line 150.
SubmitMain ==
    /\ startPc = "submit_main"
    /\ queue' = Submit(queue, MainTask)
    /\ mainPc' = "queued"
    /\ startPc' = "sched"
    /\ UNCHANGED <<loadVars, runtime, stop_event, startIdx, startExc, taskPc,
                   warned, mainIdx, rtVars, loads, closes>>

\* (variant) one __runtime_thread per presence that uses web features.
RuntimeSubmitsPerPresence ==
    IF Connected THEN Cardinality({i \in Idx : presences[i].web}) ELSE 0

\* Line 163: the number of __runtime_thread tasks start() submits.
RuntimeSubmits == IF Connected /\ web_enabled THEN 1 ELSE 0

\* Lines 163-164.  Reading a handle that cannot be read raises.
Schedule ==
    /\ startPc = "sched"
    /\ IF runtime = "unreadable"
       THEN /\ startPc' = "drain"
            /\ startExc' = "runtime"
            /\ UNCHANGED <<queue, rtSpawned>>
       ELSE /\ startPc' = "wait"
            /\ queue' = queue \o Fresh(RuntimeSubmits, RtTask)
            /\ rtSpawned' = rtSpawned + RuntimeSubmits
            /\ UNCHANGED startExc
    /\ UNCHANGED <<loadVars, runtime, stop_event, startIdx, taskPc, warned,
                   mainVars, rtFailed, loads, closes>>

\* Lines 165-166: the wait loop ends once the stop signal is set.
WaitExit ==
    /\ startPc = "wait"
    /\ stop_event
    /\ startPc' = "drain"
    /\ UNCHANGED <<loadVars, runtime, stop_event, startIdx, startExc, taskPc,
                   warned, mainVars, queue, rtVars, loads, closes>>

\* Lines 167-169: KeyboardInterrupt reaches the caller's thread anywhere in
\* the try block.
Interrupt ==
    /\ startPc \in {"launch", "submit_main", "sched", "wait"}
    /\ stop_event' = TRUE
    /\ startPc' = "drain"
    /\ startIdx' = 0
    /\ UNCHANGED <<loadVars, runtime, startExc, taskPc, warned, mainVars,
                   queue, rtVars, loads, closes>>

\* Line 171 returns and line 172 begins stop_presences.
Drain ==
    /\ startPc = "drain"
    /\ DrainComplete
    /\ startPc' = "close"
    /\ startIdx' = 1
    /\ UNCHANGED <<loadVars, runtime, stop_event, startExc, taskPc, warned,
                   mainVars, queue, rtVars, loads, closes>>

\* stop_presences (lines 106-107) called by start(): on_close() returns.
\* After the last one start() ends, re-raising what left the try block.
StartClose ==
    /\ startPc = "close"
    /\ closes' = [closes EXCEPT ![startIdx] = @ + 1]
    /\ IF startIdx < N
       THEN startPc' = "close" /\ startIdx' = startIdx + 1
       ELSE /\ startPc' = IF startExc = "none" THEN "returned" ELSE "raised"
            /\ startIdx' = 0
    /\ UNCHANGED <<loadVars, runtime, stop_event, startExc, taskPc, warned,
                   mainVars, queue, rtVars, loads>>

\* on_close() raises inside start()'s finally block: start() ends with it.
StartCloseRaise ==
    /\ startPc = "close"
    /\ closes' = [closes EXCEPT ![startIdx] = @ + 1]
    /\ startPc' = "raised"
    /\ startExc' = "on_close"
    /\ UNCHANGED <<loadVars, runtime, stop_event, startIdx, taskPc, warned,
                   mainVars, queue, rtVars, loads>>

----------------------------------------------------------------------------
\* __presence_thread(presence), one task per presence

\* (variant) a loop that never reads the stop signal.
KeepRunningForever == TRUE

\* Lines 117 and 137: the loop condition.
KeepRunning == ~stop_event

\* A worker takes the task: lines 113-116 read the handle when the presence
\* uses web features (an unreadable handle ends the task by an exception) and
\* log the warning when it is not connected; then line 117 is evaluated.
PresenceBegin(i) ==
    /\ CanPick(PTask(i))
    /\ queue' = Tail(queue)
    /\ IF presences[i].web /\ runtime = "unreadable"
       THEN taskPc' = [taskPc EXCEPT ![i] = "failed_start"] /\ UNCHANGED warned
       ELSE /\ warned' = [warned EXCEPT ![i] = presences[i].web /\ ~Connected]
            /\ taskPc' = [taskPc EXCEPT ![i] = IF KeepRunning THEN "sleep" ELSE "done"]
    /\ UNCHANGED <<loadVars, runtime, stop_event, startVars, mainVars, rtVars,
                   loads, closes>>

\* Lines 118-119: the sleep ends and on_update(runtime) is invoked.
PresenceUpdate(i) ==
    /\ taskPc[i] = "sleep"
    /\ taskPc' = [taskPc EXCEPT ![i] = "on_update"]
    /\ UNCHANGED <<loadVars, runtime, stop_event, startVars, warned, mainVars,
                   queue, rtVars, loads, closes>>

\* on_update returns and line 117 is evaluated again.
PresenceUpdateReturn(i) ==
    /\ taskPc[i] = "on_update"
    /\ taskPc' = [taskPc EXCEPT ![i] = IF KeepRunning THEN "sleep" ELSE "done"]
    /\ UNCHANGED <<loadVars, runtime, stop_event, startVars, warned, mainVars,
                   queue, rtVars, loads, closes>>

\* on_update raises: nothing in __presence_thread catches it, the task ends.
PresenceUpdateRaise(i) ==
    /\ taskPc[i] = "on_update"
    /\ taskPc' = [taskPc EXCEPT ![i] = "failed"]
    /\ UNCHANGED <<loadVars, runtime, stop_event, startVars, warned, mainVars,
                   queue, rtVars, loads, closes>>

----------------------------------------------------------------------------
\* __main_thread, the global tick and its teardown

\* Line 137, and line 141 once the loop ends: stop_presences invokes
\* on_close() of the first presence.
MainLoop ==
    IF KeepRunning
    THEN mainPc' = "sleep" /\ mainIdx' = 0 /\ UNCHANGED closes
    ELSE mainPc' = "on_close" /\ mainIdx' = 1
         /\ closes' = [closes EXCEPT ![1] = @ + 1]

\* A worker takes the task and line 137 is evaluated.
MainBegin ==
    /\ CanPick(MainTask)
    /\ queue' = Tail(queue)
    /\ MainLoop
    /\ UNCHANGED <<loadVars, runtime, stop_event, startVars, taskPc, warned,
                   rtVars, loads>>

\* Lines 138-140: the sleep ends and the sweep invokes update() of the first
\* presence.
MainTick ==
    /\ mainPc = "sleep"
    /\ mainPc' = "update"
    /\ mainIdx' = 1
    /\ UNCHANGED <<loadVars, runtime, stop_event, startVars, taskPc, warned,
                   queue, rtVars, loads, closes>>

\* update() returns: the sweep invokes the next one, or line 137 is evaluated.
MainUpdateReturn ==
    /\ mainPc = "update"
    /\ IF mainIdx < N
       THEN mainPc' = "update" /\ mainIdx' = mainIdx + 1 /\ UNCHANGED closes
       ELSE MainLoop
    /\ UNCHANGED <<loadVars, runtime, stop_event, startVars, taskPc, warned,
                   queue, rtVars, loads>>

\* update() raises: nothing in __main_thread catches it, the task ends.
MainUpdateRaise ==
    /\ mainPc = "update"
    /\ mainPc' = "failed"
    /\ UNCHANGED <<loadVars, runtime, stop_event, startVars, taskPc, warned,
                   mainIdx, queue, rtVars, loads, closes>>

\* stop_presences called by __main_thread: on_close() returns, the next one
\* is invoked, and after the last one the task ends.
MainCloseReturn ==
    /\ mainPc = "on_close"
    /\ IF mainIdx < N
       THEN /\ mainPc' = "on_close"
            /\ mainIdx' = mainIdx + 1
            /\ closes' = [closes EXCEPT ![mainIdx + 1] = @ + 1]
       ELSE mainPc' = "done" /\ mainIdx' = 0 /\ UNCHANGED closes
    /\ UNCHANGED <<loadVars, runtime, stop_event, startVars, taskPc, warned,
                   queue, rtVars, loads>>

\* on_close() raises inside __main_thread: the task ends.
MainCloseRaise ==
    /\ mainPc = "on_close"
    /\ mainPc' = "failed"
    /\ UNCHANGED <<loadVars, runtime, stop_event, startVars, taskPc, warned,
                   mainIdx, queue, rtVars, loads, closes>>

----------------------------------------------------------------------------
\* __runtime_thread

\* A worker takes the task.  Line 125 formats self.runtimeInterval, an
\* attribute __init__ never sets (it sets self.runtime_interval): the read
\* raises AttributeError before the loop of lines 126-131 is entered, and the
\* task ends.
RuntimeBegin ==
    /\ CanPick(RtTask)
    /\ queue' = Tail(queue)
    /\ rtFailed' = rtFailed + 1
    /\ UNCHANGED <<loadVars, runtime, stop_event, startVars, taskPc, warned,
                   mainVars, rtSpawned, loads, closes>>

----------------------------------------------------------------------------
\* Specifications

StartStep ==
    \/ StartCall
    \/ Launch
    \/ LaunchRaise
    \/ SubmitMain
    \/ Schedule
    \/ WaitExit
    \/ Drain
    \/ StartClose
    \/ StartCloseRaise

PresenceStep(i) ==
    \/ PresenceBegin(i)
    \/ PresenceUpdate(i)
    \/ PresenceUpdateReturn(i)
    \/ PresenceUpdateRaise(i)

MainStep ==
    \/ MainBegin
    \/ MainTick
    \/ MainUpdateReturn
    \/ MainUpdateRaise
    \/ MainCloseReturn
    \/ MainCloseRaise

Next ==
    \/ LoadAny
    \/ LoadReturn
    \/ RuntimeChange
    \/ StopSignal
    \/ Interrupt
    \/ StartStep
    \/ \E i \in Idx : PresenceStep(i)
    \/ MainStep
    \/ RuntimeBegin

Spec == Init /\ [][Next]_vars

\* Every thread that can take a step eventually takes one: the caller's
\* thread, each task a worker runs, and hooks return or raise.
FairSpec ==
    /\ Spec
    /\ WF_vars(StartStep)
    /\ \A i \in 1..MaxRegistry : WF_vars(i \in Idx /\ PresenceStep(i))
    /\ WF_vars(MainStep)
    /\ WF_vars(RuntimeBegin)

\* load() called repeatedly over one fixed folder, start() not yet called.
NextLoad ==
    \/ LoadNext
    \/ LoadReturnTree
    \/ LoadAgain

LoadSpec == InitTree /\ [][NextLoad]_vars

----------------------------------------------------------------------------
\* Properties

\* Every task submitted to the pool has ended.
AllTasksEnded ==
    /\ queue = <<>>
    /\ \A i \in Idx : taskPc[i] \in {"none", "done", "failed", "failed_start"}
    /\ mainPc \in {"none", "done", "failed"}
    /\ rtFailed = rtSpawned

StartRunning == startPc \notin {"idle", "returned", "raised"}
StartEnded == startPc \in {"returned", "raised"}

\* A step that invokes on_update of presence i, update() of presence i.
InvokesOnUpdate(i) == taskPc[i] = "sleep" /\ taskPc'[i] = "on_update"
InvokesUpdate(i) ==
    /\ mainPc' = "update" /\ mainIdx' = i
    /\ ~(mainPc = "update" /\ mainIdx = i)

\* C1: every presence of the list receives exactly one on_close() overall:
\* never two, and one by the time start() has returned.
C1_CloseOnce ==
    \A i \in Idx : closes[i] <= 1 /\ (startPc = "returned" => closes[i] = 1)

\* C2: once on_close() has been invoked on a presence, no step invokes its
\* on_update(runtime) or its global-tick update().
C2_CloseIsLast ==
    [][\A i \in Idx : closes[i] > 0 => ~InvokesOnUpdate(i) /\ ~InvokesUpdate(i)]_vars

\* C3: on_load() is invoked at most once on a presence, and a presence that
\* has observed on_update, update() or on_close() has observed on_load().
C3_LoadFirst ==
    \A i \in Idx :
        /\ loads[i] <= 1
        /\ (\/ closes[i] > 0
            \/ taskPc[i] = "on_update"
            \/ (mainPc = "update" /\ mainIdx = i)) => loads[i] = 1

\* C4: once the stop signal is set during a run of start(), start()
\* eventually ends; and when it has ended every submitted task has ended
\* and, unless an on_close() raised inside start(), on_close() has been
\* invoked on every presence.
C4_StopEndsRun ==
    /\ (stop_event /\ StartRunning) ~> StartEnded
    /\ [](StartEnded /\ N > 0 =>
            /\ AllTasksEnded
            /\ (startExc /= "on_close" => \A i \in Idx : closes[i] >= 1))

\* C4 happens: a run over two presences was stopped and start() returned.
C4_Witness ==
    /\ startPc = "returned" /\ N >= 2 /\ stop_event
    /\ mainPc = "done"
    /\ \A i \in Idx : taskPc[i] = "done"

\* C5: a __runtime_thread task ends only after the stop signal is set.
C5_PollerRunsUntilStop == rtFailed > 0 => stop_event

\* C6: when no presence of the list uses web features, no __runtime_thread
\* task is submitted.
C6_NoWebNoPoller == (\A i \in Idx : ~presences[i].web) => rtSpawned = 0

\* C7: the scheduling step of start() submits exactly one __runtime_thread
\* when a presence of the list uses web features and the handle is connected,
\* none when the handle is not connected, and no other step submits one.
C7_OnePoller ==
    [][/\ rtSpawned' /= rtSpawned => startPc = "sched" /\ rtSpawned = 0
       /\ (startPc = "sched" /\ startPc' = "wait") =>
            /\ (Connected /\ \E i \in Idx : presences[i].web) => rtSpawned' = 1
            /\ ~Connected => rtSpawned' = 0]_vars

\* C7 happens: two presences use web features and one task was submitted.
C7_Witness ==
    /\ Cardinality({i \in Idx : presences[i].web}) >= 2
    /\ rtSpawned = 1

\* C8: no instance whose enabled flag is false is in the list, so none is
\* reached by the hooks, which are invoked on the entries of the list only.
C8_DisabledNeverListed ==
    \A i \in Idx : presences[i].enabled

\* C8 happens: load() met an instance that uses web features and is not in
\* the list (a disabled one), and a run over the list has ended.
C8_Witness ==
    /\ web_enabled /\ N >= 1
    /\ \A i \in Idx : ~presences[i].web /\ closes[i] >= 1
    /\ startPc = "returned"

\* C9: a step in which on_update of a presence ends leaves its task in the
\* loop, or ends it because the stop signal is set: never by the error.
C9_UpdateErrorKeepsTask ==
    [][\A i \in Idx : taskPc[i] = "on_update" =>
          \/ taskPc'[i] \in {"on_update", "sleep"}
          \/ taskPc'[i] = "done" /\ stop_event]_vars

\* An update hook of presence j has raised.
UpdateRaised(j) == taskPc[j] = "failed" \/ (mainPc = "failed" /\ mainIdx = j /\ ~stop_event)

\* C10: while the stop signal is not set, an update hook of presence j that
\* raised leaves the global tick running for every other presence i.
C10_SiblingsKeepTicking ==
    \A i, j \in Idx : (i /= j /\ UpdateRaised(j) /\ ~stop_event) => mainPc /= "failed"

\* C11: no submitted task is left waiting in the queue for ever (a presence
\* task, __main_thread, __runtime_thread), and once the stop signal is set
\* start() ends.
C11_NoTaskStarves ==
    /\ \A i \in 1..MaxRegistry :
          (i \in Idx /\ taskPc[i] = "queued") ~> (i \in Idx /\ taskPc[i] /= "queued")
    /\ (mainPc = "queued") ~> (mainPc /= "queued")
    /\ (rtFailed < rtSpawned) ~> (rtFailed = rtSpawned)
    /\ (stop_event /\ StartRunning) ~> StartEnded

\* Some task other than the presence's own is inside a hook of presence i.
MainInsideHookOf(i) == mainPc \in {"update", "on_close"} /\ mainIdx = i

\* C12: no presence has two tasks inside its hooks at once: its own task
\* inside on_update and __main_thread inside its update() or on_close().
C12_OneTaskPerPresence ==
    \A i \in Idx : ~(taskPc[i] = "on_update" /\ MainInsideHookOf(i))

\* C13: start() on an empty list goes straight to its return: the step
\* submits nothing, invokes nothing, leaves the stop signal alone and
\* raises nothing.
C13_EmptyStartReturns ==
    [][(N = 0 /\ startPc = "idle" /\ startPc' /= "idle") =>
          /\ startPc' = "returned"
          /\ UNCHANGED <<queue, mainPc, rtSpawned, rtFailed, stop_event, startExc>>]_vars

\* C13 happens: start() returned on an empty list although load() had met
\* an instance that uses web features and the handle is connected.
C13_Witness ==
    /\ N = 0 /\ startPc = "returned"
    /\ web_enabled /\ Connected
    /\ queue = <<>> /\ mainPc = "none" /\ rtSpawned = 0 /\ ~stop_event

\* An entry point of the folder whose module loads without an error, one
\* whose loading fails at some step.
ValidFile(f) == IsEntryPoint(f.name) /\ ~Raises(f)
InvalidFile(f) == IsEntryPoint(f.name) /\ Raises(f)

\* The presences of the valid files among the first k files of the folder,
\* in walk order.
RECURSIVE ValidPresences(_)
ValidPresences(k) ==
    IF k = 0 THEN <<>>
    ELSE ValidPresences(k - 1) \o
         (IF ValidFile(tree[k]) THEN SelectSeq(tree[k].classes, IsEnabled) ELSE <<>>)

InvalidCount(k) == Cardinality({j \in 1..k : InvalidFile(tree[j])})

\* C14: during the first load() over a folder, after each file the list
\* holds exactly the presences of the valid files visited so far and the
\* errors logged are as many as the invalid files visited so far; so when
\* the walk ends the list is that of the N valid files and M errors were
\* logged.
C14_ValidLoadedInvalidLogged ==
    (phase = "load" /\ nLoads = 0) =>
        /\ presences = ValidPresences(nFiles)
        /\ nErrors = InvalidCount(nFiles)

\* The presences one walk over the folder discovers: the enabled instances
\* every entry point yields.
RECURSIVE Discovered(_)
Discovered(k) ==
    IF k = 0 THEN 0
    ELSE Discovered(k - 1) +
         (IF IsEntryPoint(tree[k].name) THEN Len(Appended(tree[k])) ELSE 0)

\* C15: whatever the number of load() calls over one folder, the list holds
\* no presence twice.  Every entry of the list is one of the presences a
\* walk discovers, so a list longer than the number of those holds one of
\* them twice; and each walk appends every one of them once, so a list
\* that holds one twice is longer than that number.
C15_NoPresenceTwice == Len(presences) <= Discovered(Len(tree))

\* C17: a load_presence call that fails leaves the list and the
\* web_enabled flag as they were before the call.
C17_FailedModuleSkipped ==
    [][(/\ phase = "load"
        /\ nFiles < Len(tree)
        /\ nFiles' = nFiles + 1
        /\ InvalidFile(tree[nFiles + 1])) => UNCHANGED <<presences, web_enabled>>]_vars

\* The task of presence i is inside its loop.
InLoop(i) == taskPc[i] \in {"sleep", "on_update"}

\* C16: a task that logged the warning (its presence uses web features and
\* the handle was not connected when it began) ended by no error: it is in
\* its loop, or it left the loop because the stop signal is set.
C16_WarnedTaskKeepsLooping ==
    \A i \in Idx : warned[i] => InLoop(i) \/ (taskPc[i] = "done" /\ stop_event)

\* C18: once the stop signal is set it stays set and no loop begins another
\* iteration: no presence task and no __main_thread enters the sleep that
\* opens an iteration, and on_update and the sweep are only entered from
\* that sleep.  So each task invokes on_update at most once after the
\* signal, __main_thread sweeps at most once, and __runtime_thread, whose
\* only step ends it, invokes nothing.
C18_AtMostOneMoreIteration ==
    [][/\ stop_event =>
            /\ stop_event'
            /\ \A i \in Idx : taskPc'[i] = "sleep" => taskPc[i] = "sleep"
            /\ mainPc' = "sleep" => mainPc = "sleep"
       /\ \A i \in Idx : (taskPc'[i] = "on_update" /\ taskPc[i] /= "on_update")
                              => taskPc[i] = "sleep"
       /\ (mainPc' = "update" /\ mainPc /= "update") => mainPc = "sleep"
       /\ rtFailed' /= rtFailed => rtFailed' = rtFailed + 1 /\ rtFailed' <= rtSpawned]_vars

\* C18 happens: the signal is set while a presence task and __main_thread
\* are in the invocation of their last iteration, the sweep at its last
\* presence.
C18_Witness ==
    /\ stop_event /\ N >= 1
    /\ taskPc[1] = "on_update"
    /\ mainPc = "update" /\ mainIdx = N

\* C19: start() is never at shutdown(wait=True) with the stop signal unset.
C19_StopSetBeforeDrain == startPc = "drain" => stop_event

\* C20: when start() has ended, on_close() was invoked on every presence of
\* the list, whether or not an on_close() raised.
C20_AllClosedAtEnd == StartEnded => \A i \in Idx : closes[i] >= 1

====
